---- MODULE Spec2Model ----
(***************************************************************************)
(* TrafficEnv (src/src/env.py): the adapter between the training loop and  *)
(* the SUMO simulator reached through traci.  The simulator is modelled by *)
(* what the adapter can see of it: the traffic-light list, their           *)
(* controlled-lane lists, the running phase of each light's signal program *)
(* (src/scenario/gen0611/gen.py), the per-lane readings and the minimum    *)
(* expected vehicle number.                                                *)
(***************************************************************************)
EXTENDS Integers, Sequences, FiniteSets, TLC

\* ------------------------------------------------------------ bounds
MaxN == 2
NLane == 2
MaxLaneList == 2
MaxVeh == 1
MaxSteps == 2
\* get_reward on its own: the longest lane list and the most vehicles on a lane
RwMaxList == 3
RwMaxVeh == 2
\* the training run: n_episode and max_step_per_ep of main.py (100 and 360
\* there), scaled down; the loop of main.py is the same for every value
n_episode == 2
max_step_per_ep == 1
\* the agents' configuration: replay capacity, warm-up threshold, and the
\* number of decay steps from the initial exploration rate down to its floor
capacity == 2
warmup == 2
EpsDecays == 2

\* ------------------------------------------------- program constants
\* Python's None for a field that __init__ leaves unset.
None == -1
\* self.decision_time
decision_time == 10
\* durations of the 8 phases of the "custom" signal program, phase 0 first
PhaseDur == <<30, 10, 4, 2, 30, 10, 4, 2>>
NPhases == Len(PhaseDur)
\* the two green phases of each direction in that program
GreenA == {0, 1}
GreenB == {4, 5}

VARIABLES
    lanesOf,          \* scenario: lanesOf[i] = getControlledLanes of the i-th light
    numpy_strict,     \* the installed numpy raises on np.array of ragged rows
    sessions,         \* number of open traci connections / simulator processes
    phase,            \* simulator: phase[i] = <<phase index, seconds left>> of light i
    lane,             \* simulator: lane[l] = <<vehicle number, halting number>>
    minExpected,      \* simulator: getMinExpectedNumber()
    time,             \* self.time
    n_intersections,  \* self.n_intersections
    n_phase,          \* self.n_phase
    max_lanes,        \* self.max_lanes
    phase_mapping,    \* self.phase_mapping
    op,               \* the last call made on the adapter
    actions,          \* its argument (step)
    err,              \* the exception it raised, "none" when it returned
    ret,              \* what it returned
    log,              \* the setPhase instructions it issued: <<light, from, to>>
    ticks,            \* the simulationStep calls it made
    pc,               \* main.py: the statement the training run is at
    episode,          \* main.py: episodes completed
    n_agents,         \* main.py: n_agents
    state,            \* main.py: state
    main_actions,     \* main.py: the list actions (one per episode, filled in place)
    action_probs,     \* main.py: the list action_probs (likewise)
    before_state,     \* main.py: before_state
    reward,           \* main.py: reward
    done,             \* main.py: done
    step_count,       \* main.py: step_count
    eps,              \* agent.eps, in decay steps above its floor
    memory,           \* memory[i]: the replay buffer of agent i, oldest first
    transition,       \* main.py: transition, the list handed to agent.push
    calls,            \* the calls main.py made in the current pass of its loop
    count,            \* create_trips_with_rush_hour: count
    platoon_size,     \* create_trips_with_rush_hour: platoon_size
    current_time,     \* create_trips_with_rush_hour: current_time
    vehicle_count,    \* create_trips_with_rush_hour: vehicle_count
    trips,            \* create_trips_with_rush_hour: trips
    result,           \* what create_trips_with_rush_hour returned
    gpc               \* create_trips_with_rush_hour: where the call is

sim == <<sessions, phase, lane, minExpected>>
fields == <<time, n_intersections, n_phase, max_lanes, phase_mapping>>
call == <<op, actions, err, ret, log, ticks>>
coord == <<pc, episode, n_agents, state, main_actions, action_probs, before_state,
           reward, done, step_count, eps, memory, transition, calls>>
gen == <<count, platoon_size, current_time, vehicle_count, trips, result, gpc>>
vars == <<lanesOf, numpy_strict, sim, fields, call, coord, gen>>

\* ------------------------------------------------------------ inputs
Lanes == 1..NLane
LaneLists == UNION {[1..k -> Lanes] : k \in 1..MaxLaneList}
Scenarios == UNION {[1..n -> LaneLists] : n \in 1..MaxN}
\* what the simulator may report after a simulationStep: per lane no more halted
\* than present vehicles, and a minimum expected number of 0 only with no vehicle
Readings == {r \in [Lanes -> (0..MaxVeh) \X (0..MaxVeh)] : \A l \in Lanes : r[l][2] <= r[l][1]}
\* (a lane no light controls is never read: it is kept empty)
Controlled == UNION {{lanesOf[i][k] : k \in 1..Len(lanesOf[i])} : i \in DOMAIN lanesOf}
Outlooks == {<<r, m>> \in Readings \X (0..1) :
                /\ m = 0 => \A l \in Lanes : r[l][1] = 0
                /\ \A l \in Lanes \ Controlled : r[l] = <<0, 0>>}
NoReadings == [l \in Lanes |-> <<0, 0>>]
NoRet == [state |-> <<>>, reward |-> <<>>, done |-> FALSE]

\* ------------------------------------------------------------ helpers
RECURSIVE MaxOf(_)
MaxOf(S) == LET x == CHOOSE y \in S : TRUE
            IN IF S = {x} THEN x
               ELSE LET m == MaxOf(S \ {x}) IN IF x > m THEN x ELSE m

Range(s) == {s[k] : k \in 1..Len(s)}

\* a Python list index: -len..len-1 are valid, negative ones count from the end
PyValidIndex(list, a) == -Len(list) <= a /\ a < Len(list)
PyIndex(list, a) == IF a >= 0 THEN list[a + 1] ELSE list[Len(list) + a + 1]

\* ------------------------------------------------- the signal program
\* one simulationStep of a static signal program
\* (a light's state is its phase and the seconds the phase has left)
PhaseStates == (0..(NPhases - 1)) \X (1..MaxOf(Range(PhaseDur)))

TickPhaseAt ==
    [ps \in PhaseStates |->
        IF ps[2] > 1 THEN <<ps[1], ps[2] - 1>>
        ELSE LET nxt == (ps[1] + 1) % NPhases IN <<nxt, PhaseDur[nxt + 1]>>]

TickPhase(ps) == TickPhaseAt[ps]

RECURSIVE TickPhaseN(_, _)
TickPhaseN(ps, k) == IF k = 0 THEN ps ELSE TickPhaseN(TickPhase(ps), k - 1)

simulationStep(ph, k) == [i \in DOMAIN ph |-> TickPhaseN(ph[i], k)]

\* traci.trafficlight.setPhase: the light switches to that phase at once
setPhase(ph, i, p) == [ph EXCEPT ![i] = <<p, PhaseDur[p + 1]>>]

\* ------------------------------------------------------------ get_state
\* mapped_phase / current_direction
Direction(p) == IF p \in {0, 1} THEN 0 ELSE 1

RECURSIVE LanePairs(_)
LanePairs(ls) ==
    IF ls = <<>> THEN <<>>
    ELSE <<lane[Head(ls)][1], lane[Head(ls)][2]>> \o LanePairs(Tail(ls))

RECURSIVE Pad(_, _)
Pad(obs, target) == IF Len(obs) < target THEN Pad(obs \o <<0, 0>>, target) ELSE obs

OneHot(m) == [k \in 1..n_phase |-> IF k = m + 1 THEN 1 ELSE 0]

Observation(i) ==
    Pad(LanePairs(lanesOf[i]), max_lanes * 2) \o OneHot(Direction(phase[i][1]))

StateRows == [i \in DOMAIN phase |-> Observation(i)]

\* np.array(state) of rows of unequal length: an object array or a ValueError,
\* depending on the numpy release (numpy_strict, the same for the whole run)
Ragged(rows) == \E i, j \in DOMAIN rows : Len(rows[i]) # Len(rows[j])

\* ------------------------------------------------------------ get_reward
\* the loop over getControlledLanes, on the readings r
RECURSIVE VehicleSumOf(_, _)
VehicleSumOf(r, ls) == IF ls = <<>> THEN 0 ELSE r[Head(ls)][1] + VehicleSumOf(r, Tail(ls))
RECURSIVE HaltSumOf(_, _)
HaltSumOf(r, ls) == IF ls = <<>> THEN 0 ELSE r[Head(ls)][2] + HaltSumOf(r, Tail(ls))

HaltSum(ls) == HaltSumOf(lane, ls)

\* get_reward when the simulator reports the readings r
RewardOn(r) == [i \in 1..n_intersections |-> 0 - HaltSumOf(r, lanesOf[i])]

\* entry i of the reward, read from the lanes of light i
RewardReversed == [i \in 1..n_intersections |->
                      0 - HaltSum(lanesOf[n_intersections + 1 - i])]
Reward == [i \in 1..n_intersections |-> 0 - HaltSum(lanesOf[i])]

\* ------------------------------------------------------------ get_done
DoneWhenLanesEmpty == \A l \in Lanes : lane[l][1] = 0
Done == minExpected = 0

\* ------------------------------------------------------------ Init
\* main.py before its first statement
NoProb == <<>>
CoordInit ==
    /\ pc = "probe"
    /\ episode = 0
    /\ n_agents = None
    /\ state = <<>>
    /\ main_actions = <<>>
    /\ action_probs = <<>>
    /\ before_state = <<>>
    /\ reward = <<>>
    /\ done = FALSE
    /\ step_count = 0
    /\ eps = EpsDecays
    /\ memory = <<>>
    /\ transition = <<>>
    /\ calls = <<>>

\* the trip generator is not running
GenIdle ==
    /\ count = 1
    /\ platoon_size = 1
    /\ current_time = 0
    /\ vehicle_count = 0
    /\ trips = <<>>
    /\ result = <<>>
    /\ gpc = "idle"

Init ==
    /\ GenIdle
    /\ lanesOf \in Scenarios
    /\ numpy_strict \in BOOLEAN
    /\ sessions = 0
    /\ phase = <<>>
    /\ lane = NoReadings
    /\ minExpected = 0
    /\ time = None
    /\ n_intersections = None
    /\ n_phase = None
    /\ max_lanes = None
    /\ phase_mapping = <<>>
    /\ op = "init"
    /\ actions = <<>>
    /\ err = "none"
    /\ ret = NoRet
    /\ log = <<>>
    /\ ticks = 0
    /\ CoordInit

\* The caller (src/src/main.py) has no exception handler: an exception raised by
\* a call ends the program, and no further call is made on the adapter.
Running == err = "none"

\* ------------------------------------------------------------ reset
\* traci.start with the default label refuses a second connection
traci_start_unchecked == FALSE
traci_start_refused == sessions > 0

\* max(len(set(getControlledLanes(tl))) for tl in getIDList())
MaxLanesOf(ll) == MaxOf({Cardinality(Range(ll[i])) : i \in DOMAIN ll})

\* the state of a freshly started simulator after its first simulationStep
FreshPhase == simulationStep([i \in DOMAIN lanesOf |-> <<0, PhaseDur[1]>>], 1)

reset ==
    /\ Running
    /\ UNCHANGED gen
    /\ op' = "reset"
    /\ actions' = <<>>
    /\ log' = <<>>
    /\ UNCHANGED <<lanesOf, numpy_strict>>
    /\ IF traci_start_refused
       THEN /\ err' = "TraCIException"
            /\ ret' = NoRet
            /\ ticks' = 0
            /\ UNCHANGED <<sim, fields>>
       ELSE /\ sessions' = sessions + 1
            /\ phase' = FreshPhase
            /\ \E o \in Outlooks : lane' = o[1] /\ minExpected' = o[2]
            /\ ticks' = 1
            /\ time' = 0
            /\ n_intersections' = Len(lanesOf)
            /\ max_lanes' = MaxLanesOf(lanesOf)
            /\ n_phase' = 2
            /\ phase_mapping' = <<0, 2>>
            /\ IF numpy_strict /\ Ragged(StateRows')
               THEN err' = "ValueError" /\ ret' = NoRet
               ELSE err' = "none" /\ ret' = [NoRet EXCEPT !.state = StateRows']

\* ------------------------------------------------------------ apply_action
LengthMismatchShortOnly(acts) == Len(acts) < n_intersections
LengthMismatchLongOnly(acts) == Len(acts) > n_intersections
LengthMismatch(acts) == Len(acts) # n_intersections

\* whether apply_action instructs a light, given its action and its phase
SwitchAlways(a, cur) == TRUE
SwitchNeeded(a, cur) == a # Direction(cur)

\* the loop of apply_action from light i on: the phases and the instructions
\* so far, and the exception that ended it
RECURSIVE ApplyFrom(_, _, _, _)
ApplyFrom(i, acts, ph, lg) ==
    IF i > Len(ph) THEN [err |-> "none", phase |-> ph, log |-> lg]
    ELSE IF i > Len(acts) THEN [err |-> "IndexError", phase |-> ph, log |-> lg]
    ELSE IF ~PyValidIndex(phase_mapping, acts[i])
         THEN [err |-> "IndexError", phase |-> ph, log |-> lg]
    ELSE LET desired == PyIndex(phase_mapping, acts[i])
             cur == ph[i][1]
         IN IF SwitchNeeded(acts[i], cur)
            THEN ApplyFrom(i + 1, acts, setPhase(ph, i, desired),
                           Append(lg, <<i, cur, desired>>))
            ELSE ApplyFrom(i + 1, acts, ph, lg)

apply_action(acts) ==
    IF LengthMismatch(acts) THEN [err |-> "ValueError", phase |-> phase, log |-> <<>>]
    ELSE IF sessions = 0 THEN [err |-> "FatalTraCIError", phase |-> phase, log |-> <<>>]
    ELSE ApplyFrom(1, acts, phase, <<>>)

\* ------------------------------------------------------------ step inputs
Directions == {0, 1}
BadValues == {-1, 2}
ShapeN == IF n_intersections = None THEN MaxN ELSE n_intersections
ValidActions == [1..ShapeN -> Directions]
WrongLength == {[k \in 1..m |-> d] : m \in {ShapeN - 1, ShapeN + 1}, d \in Directions}
OutOfDomain == {[[k \in 1..ShapeN |-> d] EXCEPT ![i] = b] :
                   d \in Directions, i \in 1..ShapeN, b \in BadValues}
StepInputs == ValidActions \cup WrongLength \cup OutOfDomain

\* ------------------------------------------------------------ step
\* the phases after apply_action and the decision interval, in that order
StepPhasesTickFirst(acts) ==
    ApplyFrom(1, acts, simulationStep(phase, decision_time), <<>>).phase
StepPhases(acts) == simulationStep(apply_action(acts).phase, decision_time)

\* self.time after k passes of the loop "simulationStep(); self.time += 1"
ElapsedOnce(t, k) == t + 1
Elapsed(t, k) == t + k

step(acts) ==
    LET applied == apply_action(acts) IN
    /\ Running
    /\ UNCHANGED gen
    /\ op' = "step"
    /\ actions' = acts
    /\ log' = applied.log
    /\ UNCHANGED <<lanesOf, numpy_strict, sessions, n_intersections, n_phase, max_lanes,
                   phase_mapping>>
    /\ IF applied.err # "none"
       THEN /\ err' = applied.err
            /\ phase' = applied.phase
            /\ ret' = NoRet
            /\ ticks' = 0
            /\ UNCHANGED <<lane, minExpected, time>>
       ELSE /\ phase' = StepPhases(acts)
            /\ \E o \in Outlooks : lane' = o[1] /\ minExpected' = o[2]
            /\ ticks' = decision_time
            /\ time' = Elapsed(time, decision_time)
            /\ IF numpy_strict /\ Ragged(StateRows')
               THEN err' = "ValueError" /\ ret' = NoRet
               ELSE /\ err' = "none"
                    /\ ret' = [state |-> StateRows', reward |-> Reward', done |-> Done']

\* a caller's step, at most MaxSteps of them after a reset
Step ==
    /\ time = None \/ time < MaxSteps * decision_time
    /\ \E acts \in StepInputs : step(acts)
    /\ UNCHANGED coord

\* ------------------------------------------------------------ accessors
get_state ==
    /\ Running
    /\ UNCHANGED gen
    /\ op' = "get_state"
    /\ actions' = <<>>
    /\ log' = <<>>
    /\ ticks' = 0
    /\ UNCHANGED <<lanesOf, numpy_strict, sim, fields, coord>>
    /\ IF sessions = 0
       THEN err' = "FatalTraCIError" /\ ret' = NoRet
       ELSE IF numpy_strict /\ Ragged(StateRows)
       THEN err' = "ValueError" /\ ret' = NoRet
       ELSE err' = "none" /\ ret' = [NoRet EXCEPT !.state = StateRows]

get_reward ==
    /\ Running
    /\ UNCHANGED gen
    /\ op' = "get_reward"
    /\ actions' = <<>>
    /\ log' = <<>>
    /\ ticks' = 0
    /\ UNCHANGED <<lanesOf, numpy_strict, sim, fields, coord>>
    /\ IF n_intersections = None
       THEN err' = "TypeError" /\ ret' = NoRet
       ELSE IF sessions = 0
       THEN err' = "FatalTraCIError" /\ ret' = NoRet
       ELSE err' = "none" /\ ret' = [NoRet EXCEPT !.reward = Reward]

get_done ==
    /\ Running
    /\ UNCHANGED gen
    /\ op' = "get_done"
    /\ actions' = <<>>
    /\ log' = <<>>
    /\ ticks' = 0
    /\ UNCHANGED <<lanesOf, numpy_strict, sim, fields, coord>>
    /\ IF sessions = 0
       THEN err' = "FatalTraCIError" /\ ret' = NoRet
       ELSE err' = "none" /\ ret' = [NoRet EXCEPT !.done = Done]

\* ------------------------------------------------------------ close
close ==
    /\ Running
    /\ UNCHANGED gen
    /\ op' = "close"
    /\ actions' = <<>>
    /\ log' = <<>>
    /\ ticks' = 0
    /\ ret' = NoRet
    /\ UNCHANGED <<lanesOf, numpy_strict, fields>>
    /\ IF sessions = 0
       THEN err' = "FatalTraCIError" /\ UNCHANGED sim
       ELSE /\ err' = "none"
            /\ sessions' = sessions - 1
            /\ phase' = <<>>
            /\ lane' = NoReadings
            /\ minExpected' = 0

\* a caller's reset and close
Reset == reset /\ UNCHANGED coord
Close == close /\ UNCHANGED coord

Next == Reset \/ Step \/ get_state \/ get_reward \/ get_done \/ Close

Spec == Init /\ [][Next]_vars

\* ------------------------------------------------------------ get_reward alone
\* get_reward as a function of the scenario and of the simulator's readings:
\* every state a successful reset can leave, with longer lane lists and more
\* vehicles than Spec explores, and then the call.
RwLaneLists == UNION {[1..k -> Lanes] : k \in 1..RwMaxList}
RwScenarios == UNION {[1..n -> RwLaneLists] : n \in 1..MaxN}
RwReadings == [Lanes -> {vh \in (0..RwMaxVeh) \X (0..RwMaxVeh) : vh[2] <= vh[1]}]

InitReward ==
    /\ GenIdle
    /\ lanesOf \in RwScenarios
    /\ numpy_strict = FALSE
    /\ sessions = 1
    /\ phase = FreshPhase
    /\ lane \in RwReadings
    /\ minExpected = 1
    /\ time = 0
    /\ n_intersections = Len(lanesOf)
    /\ n_phase = 2
    /\ max_lanes = MaxLanesOf(lanesOf)
    /\ phase_mapping = <<0, 2>>
    /\ op = "reset"
    /\ actions = <<>>
    /\ err = "none"
    /\ ret = [NoRet EXCEPT !.state = StateRows]
    /\ log = <<>>
    /\ ticks = 1
    /\ CoordInit

NextReward == get_reward

SpecReward == InitReward /\ [][NextReward]_vars

\* ------------------------------------------------------------ the training run
\* main.py, one action per statement that calls the adapter or the agents.
\* The arrays the adapter returns are objects that nothing changes afterwards:
\* a variable of main.py that holds one (state, before_state, reward) holds its
\* name, <<episode, pass of the loop that returned it>>, and so do the entries of
\* the replay buffers; the contents of the latest one are in ret.
\* The scenarios of a run: n lights, the i-th controlling lane i.
RunScenarios == {[i \in 1..n |-> <<i>>] : n \in 1..MaxN}

\* agent.select_action: the action chosen (a random direction with probability
\* eps, the actor's best one otherwise) and the actor's output distribution
Distributions == {<<1, 0>>, <<0, 1>>}
SelectOutputs == Directions \X Distributions

\* state[i, :] raises IndexError when the array has no row i or is not 2-D
RowMissing(rows, i) == i > Len(rows) \/ Ragged(rows)
\* state[i, :], row i of the array named st
RowFirst(st, i) == <<st, 1>>
Row(st, i) == <<st, i>>

\* the second entry of a transition is the list action_probs itself, not a copy
\* of it: its items are those of action_probs for as long as main.py keeps
\* that list (alias), and the items the list had when main.py dropped it after
Aliased == [alias |-> TRUE, items |-> <<>>]
Dropped(items) == [alias |-> FALSE, items |-> items]
\* what a transition holds now
TransitionContents(tr) ==
    [tr EXCEPT ![2] = IF tr[2].alias THEN action_probs ELSE tr[2].items]

\* while not done and step_count <= max_step_per_ep
LoopIgnoresDone(d, c) == c <= max_step_per_ep
LoopContinues(d, c) == ~d /\ c <= max_step_per_ep

\* one call of the current pass: its name, the agent it is for (0: all), its
\* argument and what it returned
Called(name, i, a, o) == [f |-> name, i |-> i, arg |-> a, out |-> o]

\* the replay buffer: append, then evict the oldest beyond the capacity
EvictNewest(buf) == IF Len(buf) > capacity THEN SubSeq(buf, 1, capacity) ELSE buf
Evict(buf) == IF Len(buf) > capacity THEN Tail(buf) ELSE buf
BufferPush(buf, x) == Evict(Append(buf, x))
ready(buf) == Len(buf) >= warmup

\* agent.push: every agent stores its own slice of the joint transition
Slice(tr, i) ==
    [obs |-> Row(tr[1], i), prob |-> tr[2][i], next |-> Row(tr[3], i), reward |-> <<tr[4], i>>]
push(mem, tr) == [i \in DOMAIN mem |-> BufferPush(mem[i], Slice(tr, i))]

\* agent.train_start: every agent's buffer has reached the warm-up threshold
train_start(mem) == \A i \in DOMAIN mem : ready(mem[i])

\* agent.update_eps: one decay step, not below the floor
EpsMin == 0
update_eps_unbounded(e) == e - 1
update_eps(e) == IF e > EpsMin THEN e - 1 ELSE EpsMin

\* "for i in range(n_agents): agent.train_model(i)" and "agent.update_eps()"
TrainCallsOnce ==
    <<Called("train_model", 1, <<>>, <<>>), Called("update_eps", 0, <<>>, <<>>)>>
TrainCalls ==
    [i \in 1..n_agents |-> Called("train_model", i, <<>>, <<>>)]
        \o <<Called("update_eps", 0, <<>>, <<>>)>>

\* lines 34-35: the reset that probes the shapes
probe_reset ==
    /\ pc = "probe"
    /\ reset
    /\ pc' = IF err' = "none" THEN "dims" ELSE pc
    /\ UNCHANGED <<episode, n_agents, state, main_actions, action_probs, before_state,
                   reward, done, step_count, eps, memory, transition, calls>>

\* line 43: env.close() after the probing reset
probe_left_open == Running /\ UNCHANGED <<lanesOf, numpy_strict, sim, fields, call, gen>>
probe_close == close

\* lines 38-46: the dimensions, close, and the agents
dims ==
    /\ pc = "dims"
    /\ IF Ragged(ret.state)
       THEN /\ Running
            /\ UNCHANGED gen
            /\ err' = "IndexError"
            /\ UNCHANGED <<lanesOf, numpy_strict, sim, fields, op, actions, ret, log, ticks>>
            /\ UNCHANGED coord
       ELSE /\ probe_close
            /\ n_agents' = Len(ret.state)
            /\ memory' = [i \in 1..Len(ret.state) |-> <<>>]
            /\ eps' = EpsDecays
            /\ pc' = "episode"
            /\ UNCHANGED <<episode, state, main_actions, action_probs, before_state,
                           reward, done, step_count, transition, calls>>

\* the scenario files are generated anew between two episodes
regenerate ==
    /\ Running
    /\ UNCHANGED gen
    /\ pc = "episode"
    /\ sessions = 0
    /\ lanesOf' \in RunScenarios \ {lanesOf}
    /\ UNCHANGED <<numpy_strict, sim, fields, call, coord>>

\* lines 51-59: the reset of an episode and the episode's lists
episode_reset ==
    /\ pc = "episode"
    /\ reset
    /\ IF err' = "none"
       THEN /\ state' = <<episode, 0>>
            /\ main_actions' = [i \in 1..n_agents |-> None]
            /\ action_probs' = [i \in 1..n_agents |-> NoProb]
            /\ done' = FALSE
            /\ step_count' = 0
            /\ transition' = IF transition = <<>> THEN transition
                             ELSE [transition EXCEPT
                                      ![2] = Dropped(TransitionContents(transition)[2])]
            /\ pc' = IF LoopContinues(FALSE, 0) THEN "select" ELSE "close"
       ELSE UNCHANGED <<state, main_actions, action_probs, done, step_count, transition,
                        pc>>
    /\ calls' = <<>>
    /\ UNCHANGED <<episode, n_agents, before_state, reward, eps, memory>>

\* lines 61-66: step_count += 1 and the loop over the agents
select ==
    /\ Running
    /\ UNCHANGED gen
    /\ pc = "select"
    /\ step_count' = step_count + 1
    /\ LET upto == Cardinality({i \in 1..n_agents :
                                  \A j \in 1..i : ~RowMissing(ret.state, j)})
       IN \E out \in [1..upto -> SelectOutputs] :
            /\ main_actions' = [i \in 1..n_agents |->
                                   IF i <= upto THEN out[i][1] ELSE main_actions[i]]
            /\ action_probs' = [i \in 1..n_agents |->
                                   IF i <= upto THEN out[i][2] ELSE action_probs[i]]
            /\ calls' = [i \in 1..upto |->
                            Called("select_action", i, Row(state, i), out[i])]
            /\ err' = IF upto = n_agents THEN "none" ELSE "IndexError"
            /\ pc' = IF upto = n_agents THEN "step" ELSE pc
    /\ UNCHANGED <<lanesOf, numpy_strict, sim, fields, op, actions, ret, log, ticks>>
    /\ UNCHANGED <<episode, n_agents, state, before_state, reward, done, eps, memory,
                   transition>>

\* lines 72-73: before_state = state; state, reward, done = env.step(actions)
env_step ==
    /\ pc = "step"
    /\ step(main_actions)
    /\ before_state' = state
    /\ IF err' = "none"
       THEN /\ state' = <<episode, step_count>>
            /\ reward' = <<episode, step_count>>
            /\ done' = ret'.done
       ELSE UNCHANGED <<state, reward, done>>
    /\ calls' = Append(calls, Called("step", 0, main_actions, <<episode, step_count>>))
    /\ pc' = IF err' = "none" THEN "learn" ELSE pc
    /\ UNCHANGED <<episode, n_agents, main_actions, action_probs, step_count, eps,
                   memory, transition>>

\* lines 76-86: the transition, push, training when it starts, and the loop test
learn ==
    /\ Running
    /\ UNCHANGED gen
    /\ pc = "learn"
    /\ LET tr == <<before_state, Aliased, state, reward, done>>
           pushed == push(memory, TransitionContents(tr))
       IN /\ transition' = tr
          /\ memory' = pushed
          /\ eps' = IF train_start(pushed) THEN update_eps(eps) ELSE eps
          /\ calls' = Append(calls, Called("push", 0, TransitionContents(tr), <<>>))
                          \o (IF train_start(pushed) THEN TrainCalls ELSE <<>>)
    /\ pc' = IF LoopContinues(done, step_count) THEN "select" ELSE "close"
    /\ UNCHANGED <<lanesOf, numpy_strict, sim, fields, call>>
    /\ UNCHANGED <<episode, n_agents, state, main_actions, action_probs, before_state,
                   reward, done, step_count>>

\* for episode in range(n_episode): whether there is an episode e
MoreEpisodesShort(e) == e < n_episode - 1
MoreEpisodes(e) == e < n_episode

\* lines 89-93: close, and the next episode if there is one
env_close ==
    /\ pc = "close"
    /\ close
    /\ episode' = episode + 1
    /\ pc' = IF MoreEpisodes(episode + 1) THEN "episode" ELSE "save"
    /\ calls' = <<>>
    /\ UNCHANGED <<n_agents, state, main_actions, action_probs, before_state, reward,
                   done, step_count, eps, memory, transition>>

\* lines 95-105: the model is saved and the run ends
save_model ==
    /\ Running
    /\ UNCHANGED gen
    /\ pc = "save"
    /\ pc' = "end"
    /\ UNCHANGED <<lanesOf, numpy_strict, sim, fields, call>>
    /\ UNCHANGED <<episode, n_agents, state, main_actions, action_probs, before_state,
                   reward, done, step_count, eps, memory, transition, calls>>

InitRun ==
    /\ Init
    /\ lanesOf \in RunScenarios
    /\ numpy_strict = FALSE

NextRun ==
    \/ probe_reset \/ dims \/ regenerate \/ episode_reset \/ select \/ env_step
    \/ learn \/ env_close \/ save_model

SpecRun == InitRun /\ [][NextRun]_vars

\* main.py is one sequential program: when a call returns, the next statement
\* runs. Nothing makes the scenario files be generated anew.
RunProgress ==
    \/ probe_reset \/ dims \/ episode_reset \/ select \/ env_step
    \/ learn \/ env_close \/ save_model

SpecRunFair == InitRun /\ [][NextRun]_vars /\ WF_vars(RunProgress)

\* ============================================================ claims
\* a joint action of the latched length with every value a direction
ValidJoint(acts) == acts \in [1..n_intersections -> Directions]
\* the instructions of the last call that went to light i
InstrTo(i) == {k \in 1..Len(log) : log[k][1] = i}
Uniform(rows) == \A i, j \in DOMAIN rows : Len(rows[i]) = Len(rows[j])
RECURSIVE SetHaltSum(_)
SetHaltSum(S) == IF S = {} THEN 0
                 ELSE LET l == CHOOSE x \in S : TRUE IN lane[l][2] + SetHaltSum(S \ {l})

\* C1: under the 8-phase program, a setPhase instruction of a step with a valid
\* joint action leaves the light's phase where it is or moves it to its successor
\* in the cycle, and never takes it from a green phase of one direction to a green
\* phase of the other.
C1_PhaseSafety ==
    (op = "step" /\ n_intersections # None /\ ValidJoint(actions)) =>
        \A k \in 1..Len(log) :
            LET from == log[k][2]
                to == log[k][3]
            IN /\ to \in {from, (from + 1) % NPhases}
               /\ ~(from \in GreenA /\ to \in GreenB)
               /\ ~(from \in GreenB /\ to \in GreenA)

\* C2: the joint state returned by reset and by every step with a valid joint
\* action has N rows, all of one length, the same length as the joint state
\* returned by the call before.
C2_UniformShape ==
    [][(op' \in {"reset", "step"} /\ err' = "none" /\ (op' = "step" => ValidJoint(actions')))
        => /\ Len(ret'.state) = n_intersections'
           /\ Uniform(ret'.state)
           /\ (op' = "step" /\ ret.state # <<>>) => Len(ret'.state[1]) = Len(ret.state[1])]_vars

\* C3: every returned observation is max_lanes (vehicles, halted) pairs, the
\* light's controlled lanes in order and then (0,0) pairs, followed by a one-hot
\* vector of length 2: 2*max_lanes + 2 entries.
C3_ObservationLayout ==
    (op \in {"reset", "step", "get_state"} /\ err = "none") =>
        \A i \in 1..Len(ret.state) :
            LET row == ret.state[i]
                ls == lanesOf[i]
            IN /\ Len(row) = 2 * max_lanes + 2
               /\ Len(ls) <= max_lanes
               /\ \A k \in 1..Len(ls) :
                      row[2 * k - 1] = lane[ls[k]][1] /\ row[2 * k] = lane[ls[k]][2]
               /\ \A k \in (2 * Len(ls) + 1)..(2 * max_lanes) : row[k] = 0
               /\ {row[2 * max_lanes + 1], row[2 * max_lanes + 2]} = {0, 1}

\* C4: a step with a valid joint action instructs light i exactly when action[i]
\* differs from the direction of the light's phase before the step, then exactly
\* once and with the phase configured for direction action[i]; otherwise light i
\* gets no instruction.
C4_InstructionIffChange ==
    [][(op' = "step" /\ sessions > 0 /\ ValidJoint(actions')) =>
        \A i \in 1..n_intersections :
            IF actions'[i] # Direction(phase[i][1])
            THEN /\ Cardinality(InstrTo(i)') = 1
                 /\ \A k \in InstrTo(i)' :
                        log'[k] = <<i, phase[i][1], phase_mapping[actions'[i] + 1]>>
            ELSE InstrTo(i)' = {}]_vars

C4_Witness ==
    /\ op = "step" /\ err = "none" /\ n_intersections = 2 /\ ValidJoint(actions)
    /\ Len(log) = 1 /\ log[1][1] = 2 /\ actions[1] # actions[2]

\* C5: a step whose joint action of length N holds a value outside {0,1} fails
\* with an error and issues no instruction for that value.
C5_OutOfDomainFails ==
    (op = "step" /\ sessions > 0 /\ Len(actions) = n_intersections) =>
        \A i \in 1..Len(actions) :
            actions[i] \notin Directions => (err # "none" /\ InstrTo(i) = {})

\* C6: a step whose action vector length differs from the latched N fails with
\* an error before anything changes: no instruction, no simulator tick, the
\* elapsed time and everything else of the adapter and the simulator as before.
C6_LengthMismatchFailsFirst ==
    [][(op' = "step" /\ n_intersections # None /\ Len(actions') # n_intersections) =>
        /\ err' = "ValueError"
        /\ log' = <<>>
        /\ ticks' = 0
        /\ ret' = NoRet
        /\ UNCHANGED <<sim, fields>>]_vars

C6_Witness ==
    /\ op = "step" /\ err = "ValueError" /\ sessions = 1 /\ time = decision_time
    /\ Len(actions) = n_intersections + 1 /\ log = <<>> /\ ticks = 0

\* C7: before the first reset, step and every accessor fail with an error that is
\* neither the length-mismatch error (ValueError) nor an invalid-action error
\* (IndexError, TypeError), and leave the adapter's fields unset.
C7_NotInitializedError ==
    (n_intersections = None /\ op \in {"step", "get_state", "get_reward", "get_done"}) =>
        /\ err \notin {"none", "ValueError", "IndexError", "TypeError"}
        /\ time = None /\ n_phase = None /\ max_lanes = None

\* C8: at most one simulator session is open at any time, and a reset while a
\* session is open fails and opens none.
C8_SingleSession ==
    [][/\ sessions' <= 1
       /\ (op' = "reset" /\ sessions > 0) =>
              (err' = "TraCIException" /\ UNCHANGED <<sim, fields>>)]_vars

C8_Witness == op = "reset" /\ err = "TraCIException" /\ sessions = 1 /\ time > 0

\* C9 as stated: a reset right after a successful reset succeeds too and latches
\* the same N and max_lanes.
C9_ResetTwiceSucceeds ==
    [][(op = "reset" /\ err = "none" /\ op' = "reset") =>
        /\ err' = "none"
        /\ n_intersections' = n_intersections
        /\ max_lanes' = max_lanes]_vars

\* C9 as amended: a further reset leaves N and max_lanes as the first reset latched
\* them; it fails in traci.start when the session of the earlier reset is still
\* open, and returns only when that session has been closed.
C9_ResetAgainSameShape ==
    [][(op' = "reset" /\ n_intersections # None) =>
        /\ n_intersections' = n_intersections
        /\ max_lanes' = max_lanes
        /\ sessions > 0 => err' = "TraCIException"
        /\ err' = "none" => (sessions = 0 /\ sessions' = 1)]_vars

C9_Witness ==
    /\ op = "reset" /\ err = "TraCIException" /\ time = 0
    /\ n_intersections = Len(lanesOf) /\ max_lanes = MaxLanesOf(lanesOf)

\* C10: the reward of light i is minus the sum of the halted counts over the set
\* of lanes it controls, each lane counted once.
C10_RewardOverLaneSet ==
    (op \in {"step", "get_reward"} /\ err = "none" /\ (op = "step" => ValidJoint(actions))) =>
        \A i \in 1..Len(ret.reward) :
            ret.reward[i] = 0 - SetHaltSum(Range(lanesOf[i]))

\* ------------------------------------------------------------ C11
\* the halted vehicles of the readings r on the lanes in S, each lane once
RECURSIVE SetHaltSumOf(_, _)
SetHaltSumOf(r, S) ==
    IF S = {} THEN 0
    ELSE LET l == CHOOSE x \in S : TRUE IN r[l][2] + SetHaltSumOf(r, S \ {l})

\* the readings r differ from the simulator's only in the halted vehicles on the
\* lanes of light i, and count strictly more of them there
OnlyMoreHalted(r, i) ==
    /\ \A l \in Lanes : r[l][1] = lane[l][1]
    /\ \A l \in Lanes \ Range(lanesOf[i]) : r[l] = lane[l]
    /\ SetHaltSumOf(r, Range(lanesOf[i])) > SetHaltSumOf(lane, Range(lanesOf[i]))

\* C11: every reward returned by get_reward is <= 0, and in any simulator state
\* that differs only by strictly more halted vehicles on the lanes of light i
\* the reward of light i is strictly lower than the one returned.
C11_MoreHaltedLowerReward ==
    (op = "get_reward" /\ err = "none") =>
        \A i \in 1..n_intersections :
            /\ ret.reward[i] <= 0
            /\ \A r \in RwReadings :
                   OnlyMoreHalted(r, i) => RewardOn(r)[i] < ret.reward[i]

\* ------------------------------------------------------------ C16
\* C16: the done flag a step returns is true exactly when, after the ticks of the
\* decision interval, the simulator's minimum expected vehicle number is 0.
C16_DoneIffNoDemand ==
    (op = "step" /\ err = "none") =>
        /\ ticks = decision_time
        /\ ret.done <=> (minExpected = 0)

C16_Witness ==
    /\ op = "step" /\ err = "none" /\ ret.done /\ minExpected = 0
    /\ time = 2 * decision_time

\* ------------------------------------------------------------ C19
\* the phase light i is in once the instructions of the call are issued
AfterInstructions(i, ph, lg) ==
    LET K == {k \in 1..Len(lg) : lg[k][1] = i}
    IN IF K = {} THEN ph[i]
       ELSE LET last == lg[MaxOf(K)] IN <<last[3], PhaseDur[last[3] + 1]>>

\* C19: in a successful step every setPhase instruction precedes the first of
\* the decision_time ticks (each light ends where its instructed phase, or its
\* old one, is after all the ticks), and the observation, the reward and the
\* done flag returned are those of the simulator after the last tick.
C19_InstructTickRead ==
    [][(op' = "step" /\ err' = "none") =>
        /\ ticks' = decision_time
        /\ \A i \in 1..n_intersections :
               /\ phase'[i] = TickPhaseN(AfterInstructions(i, phase, log'), decision_time)
               /\ \A k \in 1..Len(lanesOf[i]) :
                      /\ ret'.state[i][2 * k - 1] = lane'[lanesOf[i][k]][1]
                      /\ ret'.state[i][2 * k] = lane'[lanesOf[i][k]][2]
               /\ \A d \in 0..1 :
                      ret'.state[i][Len(ret'.state[i]) - 1 + d]
                          = IF Direction(phase'[i][1]) = d THEN 1 ELSE 0
               /\ ret'.reward[i] = 0 - HaltSumOf(lane', lanesOf[i])
        /\ ret'.done = (minExpected' = 0)]_vars

\* a step that switched a light and returned readings the simulator has only
\* after the interval
C19_Witness ==
    /\ op = "step" /\ err = "none" /\ Len(log) = 1 /\ time = 2 * decision_time
    /\ \E i \in 1..n_intersections : ret.reward[i] < 0

\* ------------------------------------------------------------ C20
\* C20: a successful step makes exactly 10 simulator ticks and adds exactly 10
\* to self.time, a successful reset sets it to 0, a failed step leaves it as it
\* was, so that it is 10 times the number of successful steps since the reset.
C20_TimeCounter ==
    [][/\ (op' = "step" /\ err' = "none") => (ticks' = 10 /\ time' = time + 10)
       /\ (op' = "step" /\ err' # "none") => (ticks' = 0 /\ time' = time)
       /\ (op' = "reset" /\ err' = "none") => time' = 0
       /\ op' \notin {"step", "reset"} => time' = time
       /\ time' # None => (time' >= 0 /\ time' % 10 = 0)]_vars

C20_Witness ==
    /\ op = "step" /\ err = "IndexError" /\ time = 10 /\ Len(log) = 1 /\ ticks = 0

\* ------------------------------------------------------------ C12
\* the calls of the current pass after its push
AfterPush(cs) == SubSeq(cs, n_agents + 3, Len(cs))

\* C12: in a pass of the training loop, when every agent's buffer has reached
\* the warm-up threshold after the push, train_model is called once for each
\* agent 1..N in turn and then the exploration rate takes exactly one decay step;
\* otherwise neither train_model nor update_eps is called and the rate stays.
C12_TrainingGate ==
    [][pc = "learn" =>
        IF \A i \in 1..n_agents : Len(memory'[i]) >= warmup
        THEN /\ Len(AfterPush(calls')) = n_agents + 1
             /\ \A i \in 1..n_agents :
                    AfterPush(calls')[i].f = "train_model" /\ AfterPush(calls')[i].i = i
             /\ AfterPush(calls')[n_agents + 1].f = "update_eps"
             /\ eps' = IF eps > 0 THEN eps - 1 ELSE eps
        ELSE /\ AfterPush(calls') = <<>>
             /\ eps' = eps]_vars

C12_Witness ==
    /\ pc = "close" /\ err = "none" /\ n_agents = 2 /\ Len(calls) = 2 * n_agents + 3
    /\ calls[Len(calls)].f = "update_eps" /\ eps = EpsDecays - 1

\* ------------------------------------------------------------ C13
\* C13: in an episode the adapter's step is called at most max_step_per_ep
\* times, and the elapsed time never exceeds max_step_per_ep decision intervals.
C13_StepBudget ==
    (pc \in {"learn", "close"}) =>
        /\ step_count <= max_step_per_ep
        /\ time <= max_step_per_ep * decision_time

\* ------------------------------------------------------------ C14
\* the adapter latched an intersection count other than the agent count
CountChanged == n_agents # None /\ n_intersections # n_agents
\* the replay buffers hold a transition of episode e
PushedIn(e) == \E i \in DOMAIN memory : \E k \in 1..Len(memory[i]) :
                   memory[i][k].next[1][1] = e

\* C14: when the reset of an episode reports an intersection count other than
\* the agent count, no step of that episode succeeds, no setPhase is issued, no
\* transition of it is pushed, and the run ends with an exception: at the first
\* step, after a round of selections when there are more intersections than
\* agents, and within the first round of selections when there are fewer.
C14_FailFastOnCountChange ==
    [][/\ CountChanged' =>
             /\ pc' \in {"select", "step"}
             /\ log' = <<>>
             /\ ~(op' = "step" /\ err' = "none")
             /\ ~PushedIn(episode)'
       /\ (CountChanged /\ pc = "step") => err' # "none"
       /\ (CountChanged /\ pc = "select") =>
             \/ err' # "none"
             \/ pc' = "step" /\ n_agents < n_intersections]_vars

C14_Witness ==
    /\ CountChanged /\ n_agents < n_intersections /\ episode = 1
    /\ op = "step" /\ err = "ValueError" /\ log = <<>>

\* ------------------------------------------------------------ C15
\* C15: a push appends the agent's slice of the transition to its buffer and,
\* beyond the capacity, drops the oldest entry: the buffer holds the most recent
\* min(pushes, capacity) slices in push order.
C15_BufferFifo ==
    [][pc = "learn" =>
        \A i \in 1..n_agents :
            LET tr == <<before_state, action_probs, state, reward, done>>
                all == Append(memory[i], Slice(tr, i))
            IN /\ Len(memory'[i]) = IF Len(all) <= capacity THEN Len(all) ELSE capacity
               /\ memory'[i] = SubSeq(all, Len(all) - Len(memory'[i]) + 1, Len(all))]_vars

\* a buffer from which the first transition of the run has been evicted
C15_Witness ==
    /\ n_agents = 2 /\ Len(memory[1]) = capacity /\ memory[1][1].obs # <<<<0, 0>>, 1>>
    /\ memory[1][capacity].obs[1][1] = 1

\* ------------------------------------------------------------ C17
\* C17: the transition pushed in a pass holds the state the selections of the
\* pass were made from, the distributions those selections returned, and the
\* state, reward and done flag the step of the pass returned; and a transition
\* that was pushed holds the same afterwards, whatever main.py does next.
C17_TransitionContents ==
    [][/\ pc = "learn" =>
             LET tr == TransitionContents(transition)'
             IN /\ \A i \in 1..n_agents :
                       /\ calls[i].f = "select_action"
                       /\ calls[i].arg[1] = tr[1]
                       /\ calls[i].out[2] = tr[2][i]
                /\ calls[n_agents + 1].f = "step"
                /\ tr[3] = calls[n_agents + 1].out
                /\ tr[4] = calls[n_agents + 1].out
                /\ tr[5] = ret.done
       /\ (pc # "learn" /\ transition # <<>>) =>
             TransitionContents(transition)' = TransitionContents(transition)]_vars

\* ------------------------------------------------------------ C18
\* C18: the calls of a pass of the training loop are, in this order, one
\* select_action per agent 1..N, each on its own row of one and the same state,
\* which is the state before the step; one step, on the joint action made of the
\* N choices; one push; and then the training calls, if any.
C18_PassOrder ==
    /\ \A k \in 1..Len(calls) :
          /\ k <= n_agents =>
                /\ calls[k].f = "select_action" /\ calls[k].i = k
                /\ calls[k].arg = <<calls[1].arg[1], k>>
                /\ calls[k].arg[1] = <<episode, step_count - 1>>
          /\ k = n_agents + 1 =>
                /\ calls[k].f = "step"
                /\ calls[k].arg = [i \in 1..n_agents |-> calls[i].out[1]]
                /\ calls[k].out = <<episode, step_count>>
          /\ k = n_agents + 2 => calls[k].f = "push"
          /\ k > n_agents + 2 => calls[k].f \in {"train_model", "update_eps"}
    /\ (pc = "step" /\ err = "none") => Len(calls) = n_agents
    /\ pc = "learn" =>
          /\ Len(calls) = n_agents + 1
          /\ op = "step" /\ err = "none" /\ actions = calls[n_agents + 1].arg

C18_Witness ==
    /\ pc = "close" /\ n_agents = 2 /\ Len(calls) = 2 * n_agents + 3
    /\ calls[1].out[1] # calls[2].out[1] /\ step_count = 2

\* ------------------------------------------------------------ one long episode
\* The adapter driven through an episode of up to EpisodeSteps valid steps, long
\* enough for the static signal program to run through its own phases.
EpisodeSteps == 5

\* a caller's step with a valid joint action
EpisodeStep ==
    /\ time # None /\ time < EpisodeSteps * decision_time
    /\ \E acts \in ValidActions : step(acts)
    /\ UNCHANGED coord

NextEpisode == Reset \/ EpisodeStep \/ Close

SpecEpisode == InitRun /\ [][NextEpisode]_vars

\* the one-hot part of a row of the joint state
OneHotPart(row) == SubSeq(row, Len(row) - n_phase + 1, Len(row))

\* C21: between two consecutive observations of a light in an episode, the
\* one-hot part of its row differs only if the step between them issued a
\* set-phase instruction to that light.
C21_DirectionChangesOnlyByInstruction ==
    [][(/\ op \in {"reset", "step"} /\ err = "none"
        /\ op' = "step" /\ err' = "none")
       => \A i \in 1..n_intersections :
              OneHotPart(ret.state[i]) # OneHotPart(ret'.state[i])
                  => \E k \in 1..Len(log') : log'[k][1] = i]_vars

\* ------------------------------------------------------------ a simulator whose lists change
\* get_state, apply_action and get_reward ask the simulator for getIDList() and
\* getControlledLanes() on every call. Here the simulator may report other lane
\* lists for the same lights while a session is open.
relist ==
    /\ Running
    /\ UNCHANGED gen
    /\ sessions = 1
    /\ lanesOf' \in {s \in Scenarios : Len(s) = Len(lanesOf)} \ {lanesOf}
    /\ UNCHANGED <<numpy_strict, sim, fields, call, coord>>

NextDrift == Reset \/ Step \/ relist \/ Close

\* one light is enough to see what a changed lane list does
InitDrift == InitRun /\ Len(lanesOf) = 1

SpecDrift == InitDrift /\ [][NextDrift]_vars

\* C22: the rows and the rewards step returns are computed from the lists reset
\* latched: whatever lists the simulator reports later in the episode, every
\* row keeps the length it had in the previous return of reset or step.
C22_ListsLatchedByReset ==
    [][(/\ op \in {"reset", "step"} /\ err = "none"
        /\ op' = "step" /\ err' = "none")
       => \A i \in 1..n_intersections :
              Len(ret'.state[i]) = Len(ret.state[i])]_vars

\* C23: index alignment. In what a successful step returns, row i and reward i
\* are read from the i-th light of the simulator's enumeration, and action i
\* was applied to that same light: its phase is the one its own action and the
\* decision interval lead to.
C23_IndexAlignment ==
    [][(op' = "step" /\ err' = "none")
       => \A i \in 1..n_intersections :
              /\ ret'.state[i] = Pad(LanePairs(lanesOf[i])', 2 * max_lanes) \o
                                 OneHot(Direction(phase'[i][1]))
              /\ ret'.reward[i] = 0 - HaltSumOf(lane', lanesOf[i])
              /\ phase'[i] = TickPhaseN(
                     IF actions'[i] # Direction(phase[i][1])
                     THEN <<PyIndex(phase_mapping, actions'[i]),
                            PhaseDur[PyIndex(phase_mapping, actions'[i]) + 1]>>
                     ELSE phase[i], decision_time)]_vars

\* a step on two lights that differ in reward and in row, one of them instructed
C23_Witness ==
    /\ op = "step" /\ err = "none" /\ n_intersections = 2
    /\ ret.reward[1] # ret.reward[2]
    /\ OneHotPart(ret.state[1]) # OneHotPart(ret.state[2])
    /\ Len(log) = 1 /\ log[1][1] = 2

\* C28: a step that fails on an invalid element of a joint action of the right
\* length is atomic: no set-phase instruction was issued, the simulator was not
\* advanced and the elapsed-time counter is unchanged.
C28_InvalidElementAtomic ==
    [][(/\ op' = "step" /\ err' \in {"IndexError", "TypeError"}
        /\ Len(actions') = n_intersections)
       => /\ log' = <<>>
          /\ phase' = phase
          /\ ticks' = 0
          /\ time' = time]_vars

\* the halted-count entries of a row: the second element of each lane pair
HaltedEntries(row) == {k \in 1..(Len(row) - n_phase) : k % 2 = 0}

RECURSIVE SumAt(_, _)
SumAt(row, K) == IF K = {} THEN 0
                 ELSE LET k == CHOOSE x \in K : TRUE IN row[k] + SumAt(row, K \ {k})

\* C29: in what one step returns, the reward of light i is the negative of the
\* sum of the halted-count entries of row i, padding included.
C29_RewardFromRow ==
    (op = "step" /\ err = "none")
        => \A i \in 1..n_intersections :
               ret.reward[i] = 0 - SumAt(ret.state[i], HaltedEntries(ret.state[i]))

\* a step with halted vehicles on a light whose row is padded, and on every
\* lane of another
C29_Witness ==
    /\ op = "step" /\ err = "none"
    /\ \E i \in 1..n_intersections :
           Len(lanesOf[i]) < max_lanes /\ ret.reward[i] < 0
    /\ \E i \in 1..n_intersections : ret.reward[i] = 0 - MaxLaneList * MaxVeh

\* C24: once a step has returned done = TRUE, the pass pushes its transition
\* (and trains if training starts) and goes to close without another
\* select_action, step or push; close is the adapter's next operation, followed
\* by the next episode's reset or the end of the run.
C24_DoneEndsEpisode ==
    [][/\ (pc' \in {"select", "step"} => ~done')
       /\ (pc = "learn" /\ done)
              => /\ pc' = "close"
                 /\ calls'[Len(calls) + 1].f = "push"
                 /\ \A k \in (Len(calls) + 2)..Len(calls') :
                        calls'[k].f \in {"train_model", "update_eps"}
                 /\ op' = op
       /\ (pc = "close" /\ done)
              => /\ op' = "close"
                 /\ pc' \in {"episode", "save"}]_vars

\* an episode closed on done = TRUE with passes left in its budget
C24_Witness ==
    /\ op = "close" /\ err = "none" /\ done
    /\ step_count <= max_step_per_ep
    /\ \E i \in DOMAIN memory : Len(memory[i]) > 0

\* C26: in a training run reset and close alternate, beginning with reset: a
\* reset opens a session only when none is open, a close ends the one that is
\* open, and neither is ever refused; the probing reset's session is closed
\* before the first episode; every step is issued with exactly one session open,
\* and none is open when the run has ended normally.
C26_SessionLifecycle ==
    [][/\ sessions' \in {0, 1}
       /\ err' \notin {"TraCIException", "FatalTraCIError"}
       /\ (sessions' > sessions => sessions = 0 /\ op' = "reset")
       /\ (sessions' < sessions => op' = "close")
       /\ (pc \in {"probe", "episode"} /\ ticks' = 1 => sessions' = sessions + 1)
       /\ (pc \in {"dims", "close"} /\ pc' # pc => sessions' = sessions - 1)
       /\ (pc = "dims" /\ pc' = "episode" => sessions' = 0)
       /\ (pc = "step" => sessions = 1)
       /\ (pc' = "end" => sessions' = 0)]_vars

\* the run has ended normally after n_episode episodes, with no session open
C26_Witness ==
    pc = "end" /\ err = "none" /\ episode = n_episode /\ sessions = 0 /\ op = "close"

\* C27: the exploration rate never increases and never falls below its
\* minimum; it changes only in a pass in which training starts, so select_action,
\* step, push alone and every other statement of main.py leave it as it is.
C27_EpsMonotone ==
    [][/\ eps' <= eps
       /\ eps' >= EpsMin
       /\ (eps' # eps => pc = "learn" /\ train_start(memory'))]_vars

\* training has started with the exploration rate already at its minimum
C27_Witness ==
    /\ pc = "close" /\ episode = 1 /\ step_count = 2 /\ eps = EpsMin
    /\ calls[Len(calls)].f = "update_eps"
    /\ \A i \in DOMAIN memory : Len(memory[i]) = capacity

\* C25: termination. With every call returning, a training run ends (normally,
\* or on an exception that nothing handles); an episode that is never reported
\* done ends on its step budget; a run that ends normally has gone through
\* exactly n_episode episodes, and every episode that is closed has made at
\* least one step.
C25_Termination ==
    /\ <>(pc = "end" \/ err # "none")
    /\ [](pc \in {"select", "step", "learn"} ~> (pc = "close" \/ err # "none"))
    /\ [](pc = "end" => episode = n_episode)
    /\ [](pc = "close" => step_count >= 1)

\* a run that ended normally whose last episode was never reported done
C25_Witness ==
    /\ pc = "end" /\ err = "none" /\ episode = n_episode
    /\ ~done /\ step_count = max_step_per_ep + 1

\* ------------------------------------------------------------ the trip generator
\* create_trips_with_rush_hour of scenario/3x3v2/generate_asymmetric_trips.py,
\* one action per pass of its while loop. Times are integers, Res to the second;
\* a trip is kept by its id (its depart, from, to and type play no part in how
\* many trips there are or in what they are called).
MaxCount == 8
MaxPlatoonSize == 4
Res == 10
simulation_time == 3600
BuildUpEnd == 900
PeakEnd == 2700

Horizon == simulation_time * Res
Min(a, b) == IF a < b THEN a ELSE b

\* base_interval = simulation_time / count
base_interval == Horizon \div count

\* rush_hour_demand_multiplier, as a fraction <<numerator, denominator>>:
\* 0.6 + 0.4 * (t / 900), then 1.0, then 1.0 - 0.6 * ((t - 2700) / 900)
rush_hour_demand_multiplier(t) ==
    IF t < BuildUpEnd * Res THEN <<1350 * Res + t, 2250 * Res>>
    ELSE IF t < PeakEnd * Res THEN <<1, 1>>
    ELSE <<4200 * Res - t, 1500 * Res>>

\* adjusted_interval = base_interval / demand_mult
adjusted_interval(t) ==
    (base_interval * rush_hour_demand_multiplier(t)[2])
        \div rush_hour_demand_multiplier(t)[1]

\* f"{prefix}{vehicle_count}"
TripId(n) == <<"prefix", n>>

\* random.uniform(1.0, 3.0): the two ends and the middle
Offsets == {1 * Res, 2 * Res, 3 * Res}

\* the vehicles a platoon of pcnt appends at time t: the for loop stops at the
\* first p whose depart = t + p * offset is not before the end of the simulation
PlatoonLen(t, offs, pcnt) ==
    LET late == {p \in 0..(pcnt - 1) : t + p * offs[p + 1] >= Horizon}
    IN IF late = {} THEN pcnt ELSE CHOOSE p \in late : \A q \in late : p <= q

\* while vehicle_count < count and current_time < simulation_time
GenLoops == vehicle_count < count /\ current_time < Horizon

\* a pass in which random.random() < 0.3: a platoon
pass_platoon ==
    /\ gpc = "loop"
    /\ GenLoops
    /\ \E draw \in 2..(platoon_size + 2) :
         LET platoon_count == Min(draw, count - vehicle_count) IN
         \E offs \in [1..platoon_count -> Offsets] :
           LET n == PlatoonLen(current_time, offs, platoon_count) IN
           /\ trips' = trips \o [k \in 1..n |-> TripId(vehicle_count + k - 1)]
           /\ vehicle_count' = vehicle_count + n
    /\ current_time' = current_time + adjusted_interval(current_time)
    /\ UNCHANGED <<count, platoon_size, result, gpc>>
    /\ UNCHANGED <<lanesOf, numpy_strict, sim, fields, call, coord>>

\* a pass in which it is not: a single vehicle
pass_single ==
    /\ gpc = "loop"
    /\ GenLoops
    /\ trips' = Append(trips, TripId(vehicle_count))
    /\ vehicle_count' = vehicle_count + 1
    /\ current_time' = current_time + adjusted_interval(current_time)
    /\ UNCHANGED <<count, platoon_size, result, gpc>>
    /\ UNCHANGED <<lanesOf, numpy_strict, sim, fields, call, coord>>

\* return trips[:count]
gen_return ==
    /\ gpc = "loop"
    /\ ~GenLoops
    /\ result' = SubSeq(trips, 1, Min(count, Len(trips)))
    /\ gpc' = "returned"
    /\ UNCHANGED <<count, platoon_size, current_time, vehicle_count, trips>>
    /\ UNCHANGED <<lanesOf, numpy_strict, sim, fields, call, coord>>

InitGen ==
    /\ lanesOf = <<<<1>>>>
    /\ numpy_strict = FALSE
    /\ sessions = 0
    /\ phase = <<>>
    /\ lane = NoReadings
    /\ minExpected = 0
    /\ time = None
    /\ n_intersections = None
    /\ n_phase = None
    /\ max_lanes = None
    /\ phase_mapping = <<>>
    /\ op = "init"
    /\ actions = <<>>
    /\ err = "none"
    /\ ret = NoRet
    /\ log = <<>>
    /\ ticks = 0
    /\ CoordInit
    /\ count \in 1..MaxCount
    /\ platoon_size \in 1..MaxPlatoonSize
    /\ current_time = 0
    /\ vehicle_count = 0
    /\ trips = <<>>
    /\ result = <<>>
    /\ gpc = "loop"

NextGen == pass_platoon \/ pass_single \/ gen_return

SpecGen == InitGen /\ [][NextGen]_vars

\* C30: create_trips_with_rush_hour returns exactly count trips, whatever its
\* random draws, and their ids are prefix0 .. prefix(count-1).
C30_ExactlyCountTrips ==
    gpc = "returned"
        => /\ Len(result) = count
           /\ \A k \in 1..Len(result) : result[k] = TripId(k - 1)

====
